---- MODULE Spec2Model ----
(***************************************************************************)
(* A model of src/app.py: the parallel patch preprocessing                 *)
(* (process_blob, preprocess_and_save_locally), the dataset construction,  *)
(* the checkpoint resume, the BYOL training loop with its EMA target       *)
(* update, the per-epoch checkpoint save/upload and the final backbone     *)
(* export (main).                                                          *)
(*                                                                         *)
(* Strings are sequences of one-character strings, so that the name        *)
(* conversions of the code (extension filter, splitext, replace, f-string) *)
(* are computed as the code computes them.  Network weights are abstracted *)
(* to one integer per parameter container.                                 *)
(***************************************************************************)
EXTENDS Integers, Sequences, FiniteSets, TLC

VARIABLES
    \* ---- the world outside one run (survives a run) ----
    container,      \* names of the objects of the remote source container
    cacheExists,    \* os.path.exists(local_target_dir)
    cache,          \* the cache directory: file name -> file content
    localCkpt,      \* the model output directory: checkpoint name -> content
    remote,         \* the remote checkpoint container: blob name -> content
    exportFile,     \* resnet18_backbone_final.pth (NoFile until written)
    runs,           \* how many times the program has been started
    \* ---- preprocess_and_save_locally / process_blob ----
    pre_pc,         \* position in preprocess_and_save_locally
    patch_size,     \* the patch_size argument
    tasks,          \* blob name -> state of its process_blob task
    results,        \* results yielded by imap_unordered, not yet consumed
    progress,       \* results consumed by the orchestrator's for loop
    listCalls,      \* calls of container_client.list_blobs() in this run
    printed,        \* what this run has printed (user-visible output)
    writes,         \* history: every patch.save of this run
    at_start,       \* history: the files when this run began
    \* ---- main ----
    pc,             \* position in main
    dataset_len,    \* len(dataset)
    online,         \* online_network parameters
    target,         \* target_network parameters
    pred,           \* prediction_head parameters
    opt,            \* optimizer state
    checkpoint,     \* the dict torch.load returned (NoCkpt before)
    start_epoch,
    epoch,
    batch,          \* batches of the current epoch already taken
    total_loss,
    avg_loss,
    z_target,       \* target weights the current step's forward pass used
    loss,           \* the current step's loss value
    steps           \* history: what this run's resume and training did

prevars == <<pre_pc, patch_size, tasks, results, progress, listCalls>>
worldvars == <<container, cacheExists, cache, localCkpt, remote, exportFile, runs>>
histvars == <<printed, writes, at_start, steps>>
netvars == <<online, target, pred, opt>>
loopvars == <<checkpoint, start_epoch, epoch, batch, total_loss, avg_loss, z_target, loss>>
mainvars == <<pc, dataset_len, netvars, loopvars>>
vars == <<worldvars, prevars, histvars, mainvars>>

-----------------------------------------------------------------------------
(* Bounds of the model.                                                    *)

\* image widths and heights are drawn from 1..MaxDim
MaxDim == 4
\* os.cpu_count(): the size of the worker pool
OsCpuCount == 2
\* NUM_EPOCHS of line 129 (50 there), scaled down
NUM_EPOCHS == 3
\* BATCH_SIZE of line 128 (256 there), scaled down
BATCH_SIZE == 3
\* PATCH_SIZE of line 127 (224 there), scaled down
PATCH_SIZE == 2

-----------------------------------------------------------------------------
(* Strings.                                                                *)

Lower(c) ==
    CASE c = "J" -> "j" [] c = "P" -> "p" [] c = "G" -> "g"
      [] c = "N" -> "n" [] c = "E" -> "e" [] OTHER -> c

LowerStr(s) == [i \in 1..Len(s) |-> Lower(s[i])]

EndsWith(s, suf) ==
    /\ Len(s) >= Len(suf)
    /\ SubSeq(s, Len(s) - Len(suf) + 1, Len(s)) = suf

\* str.rfind, 1-based, 0 when absent
RFind(s, c) ==
    LET hits == {i \in 1..Len(s) : s[i] = c}
    IN  IF hits = {} THEN 0 ELSE CHOOSE i \in hits : \A j \in hits : j <= i

Replace(s, old, new) == [i \in 1..Len(s) |-> IF s[i] = old THEN new ELSE s[i]]

DigitChar(d) == <<"0", "1", "2", "3", "4", "5", "6", "7", "8", "9">>[d + 1]

RECURSIVE Str(_)
Str(n) == IF n < 10 THEN <<DigitChar(n)>> ELSE Str(n \div 10) \o <<DigitChar(n % 10)>>

\* blob.name.lower().endswith(('jpg', 'jpeg', 'png'))
IsImageBlob(name) ==
    LET l == LowerStr(name)
    IN  \/ EndsWith(l, <<"j", "p", "g">>)
        \/ EndsWith(l, <<"j", "p", "e", "g">>)
        \/ EndsWith(l, <<"p", "n", "g">>)

\* os.path.splitext(p)[0]: the extension starts at the last dot of the last
\* path component, unless only dots precede it there
SplitextRoot(p) ==
    LET sep == RFind(p, "/")
        dot == RFind(p, ".")
    IN  IF dot > sep /\ (\E i \in (sep + 1)..(dot - 1) : p[i] # ".")
        THEN SubSeq(p, 1, dot - 1)
        ELSE p

\* original_filename = os.path.splitext(blob_name)[0].replace("/", "_")
OriginalFilename(blob_name) == Replace(SplitextRoot(blob_name), "/", "_")

\* patch_filename = f"{original_filename}_patch_{patch_num}.png"
PatchFilename(blob_name, patch_num) ==
    OriginalFilename(blob_name) \o <<"_", "p", "a", "t", "c", "h", "_">>
        \o Str(patch_num) \o <<".", "p", "n", "g">>

-----------------------------------------------------------------------------
(* The inputs.                                                             *)

Blob_a_jpg == <<"a", ".", "j", "p", "g">>
Blob_a_png == <<"a", ".", "p", "n", "g">>
Blob_d_a_PNG == <<"d", "/", "a", ".", "P", "N", "G">>
Blob_d_a_png == <<"d", "_", "a", ".", "p", "n", "g">>
Blob_b_txt == <<"b", ".", "t", "x", "t">>

\* the contents of the source container that are tried
Containers ==
    { {},
      {Blob_b_txt},
      {Blob_a_jpg},
      {Blob_a_jpg, Blob_a_png},
      {Blob_d_a_PNG, Blob_d_a_png},
      {Blob_a_jpg, Blob_d_a_png, Blob_b_txt} }

\* the patch sizes preprocess_and_save_locally is tried with
PatchSizes == {2, 3}

Dims == 1..MaxDim

NoBox == <<0, 0, 0, 0>>

\* a cache directory some earlier activity left k files in
OldFile(i) == <<"o", "l", "d", DigitChar(i)>>
OldCache(k) ==
    [f \in {OldFile(i) : i \in 1..k} |-> [blob |-> <<>>, idx |-> 0, box |-> NoBox]]
OldCacheSizes == {0, 1, 4}

EmptyFn == [f \in {} |-> f]

-----------------------------------------------------------------------------
(* process_blob: one task of the pool.                                     *)

QueuedTask ==
    [st |-> "queued", attempts |-> 0, width |-> 0, height |-> 0, x |-> 0,
     y |-> 0, patch_num |-> 0, stage |-> "none"]

\* the message process_blob returns
Processed(blob_name) == [ok |-> TRUE, blob |-> blob_name]
Failed(blob_name) == [ok |-> FALSE, blob |-> blob_name]

Running == {b \in DOMAIN tasks : tasks[b].st = "open"}

\* a variant of LoopActive: range(0, height, patch_size), range(0, width,
\* patch_size)
LoopActiveToEdge(t) ==
    /\ t.y < t.height
    /\ t.x < t.width

\* the loops of lines 35-36 have another (x, y) to visit
LoopActive(t) ==
    /\ t.y < t.height - patch_size + 1
    /\ t.x < t.width - patch_size + 1

FailTask(b, stage) ==
    /\ tasks' = [tasks EXCEPT ![b].st = "failed", ![b].stage = stage,
                              ![b].attempts = IF stage = "tile" THEN @ ELSE @ + 1,
                              ![b].width = 0, ![b].height = 0,
                              ![b].x = 0, ![b].y = 0]
    /\ results' = results \cup {Failed(b)}

\* a variant of TaskFetch: a failed download is tried once more
TaskFetchRetry(b) ==
    /\ pre_pc = "pool"
    /\ b \in DOMAIN tasks
    /\ tasks[b].st = "queued"
    /\ Cardinality(Running) < OsCpuCount
    /\ \/ /\ tasks[b].attempts = 0
          /\ tasks' = [tasks EXCEPT ![b].attempts = @ + 1]
          /\ UNCHANGED results
       \/ \E stage \in {"download", "open"} : FailTask(b, stage)
       \/ /\ \E w \in Dims, h \in Dims :
               tasks' = [tasks EXCEPT ![b].st = "open", ![b].attempts = @ + 1,
                                      ![b].width = w, ![b].height = h]
          /\ UNCHANGED results
    /\ UNCHANGED <<pre_pc, patch_size, progress, listCalls, worldvars, histvars, mainvars>>

\* lines 27-33: a free worker takes the task, downloads the blob and opens
\* the image; either may raise, which line 45 catches
TaskFetch(b) ==
    /\ pre_pc = "pool"
    /\ b \in DOMAIN tasks
    /\ tasks[b].st = "queued"
    /\ Cardinality(Running) < OsCpuCount
    /\ \/ \E stage \in {"download", "open"} : FailTask(b, stage)
       \/ /\ \E w \in Dims, h \in Dims :
               tasks' = [tasks EXCEPT ![b].st = "open", ![b].attempts = @ + 1,
                                      ![b].width = w, ![b].height = h]
          /\ UNCHANGED results
    /\ UNCHANGED <<pre_pc, patch_size, progress, listCalls, worldvars, histvars, mainvars>>

\* a variant of NextXY: the loops of lines 35-36 exchanged
NextXYColumnMajor(t) ==
    IF t.y + patch_size < t.height - patch_size + 1
    THEN <<t.x, t.y + patch_size>>
    ELSE <<t.x + patch_size, 0>>

\* the x, y of the iteration after (x, y): the inner range over x, then the
\* next y
NextXY(t) ==
    IF t.x + patch_size < t.width - patch_size + 1
    THEN <<t.x + patch_size, t.y>>
    ELSE <<0, t.y + patch_size>>

\* lines 37-43: one iteration: crop, convert, save, count
TaskPatch(b) ==
    /\ pre_pc = "pool"
    /\ b \in DOMAIN tasks
    /\ tasks[b].st = "open"
    /\ LoopActive(tasks[b])
    /\ LET t == tasks[b]
           box == <<t.x, t.y, t.x + patch_size, t.y + patch_size>>
           patch_filename == PatchFilename(b, t.patch_num)
           nxt == NextXY(t)
       IN  /\ cache' = (patch_filename :> [blob |-> b, idx |-> t.patch_num, box |-> box]) @@ cache
           /\ writes' = writes \cup
                 {[file |-> patch_filename, blob |-> b, idx |-> t.patch_num,
                   box |-> box, width |-> t.width, height |-> t.height]}
           /\ tasks' = [tasks EXCEPT ![b].patch_num = t.patch_num + 1,
                                     ![b].x = nxt[1], ![b].y = nxt[2]]
    /\ UNCHANGED <<pre_pc, patch_size, results, progress, listCalls>>
    /\ UNCHANGED <<container, cacheExists, localCkpt, remote, exportFile, runs>>
    /\ UNCHANGED <<printed, at_start, steps, mainvars>>

\* lines 38-42 raise (the pixel data cannot be decoded, the file cannot be
\* written): line 45 catches, the patches saved so far stay
TaskPatchFail(b) ==
    /\ pre_pc = "pool"
    /\ b \in DOMAIN tasks
    /\ tasks[b].st = "open"
    /\ LoopActive(tasks[b])
    /\ FailTask(b, "tile")
    /\ UNCHANGED <<pre_pc, patch_size, progress, listCalls, worldvars, histvars, mainvars>>

\* line 44: the loops are over
TaskReturn(b) ==
    /\ pre_pc = "pool"
    /\ b \in DOMAIN tasks
    /\ tasks[b].st = "open"
    /\ ~LoopActive(tasks[b])
    /\ tasks' = [tasks EXCEPT ![b].st = "ok", ![b].x = 0, ![b].y = 0]
    /\ results' = results \cup {Processed(b)}
    /\ UNCHANGED <<pre_pc, patch_size, progress, listCalls, worldvars, histvars, mainvars>>

-----------------------------------------------------------------------------
(* preprocess_and_save_locally.                                            *)

\* a variant of PreCheckCache: len(os.listdir(local_target_dir)) > 1
PreCheckCacheMoreThanOne ==
    /\ pre_pc = "entry"
    /\ IF cacheExists /\ Cardinality(DOMAIN cache) > 1
       THEN /\ printed' = printed \cup {<<"Patches already exist", <<>>>>}
            /\ pre_pc' = "returned"
       ELSE /\ printed' = printed \cup {<<"Starting parallel preprocessing", <<>>>>}
            /\ pre_pc' = "mkdir"
    /\ UNCHANGED <<patch_size, tasks, results, progress, listCalls>>
    /\ UNCHANGED <<worldvars, writes, at_start, steps, mainvars>>

\* lines 73-76
PreCheckCache ==
    /\ pre_pc = "entry"
    /\ IF cacheExists /\ Cardinality(DOMAIN cache) > 0
       THEN /\ printed' = printed \cup {<<"Patches already exist", <<>>>>}
            /\ pre_pc' = "returned"
       ELSE /\ printed' = printed \cup {<<"Starting parallel preprocessing", <<>>>>}
            /\ pre_pc' = "mkdir"
    /\ UNCHANGED <<patch_size, tasks, results, progress, listCalls>>
    /\ UNCHANGED <<worldvars, writes, at_start, steps, mainvars>>

\* line 77, outside the try: an OSError propagates unreported
PreMakedirs ==
    /\ pre_pc = "mkdir"
    /\ \/ /\ cacheExists' = TRUE
          /\ pre_pc' = "list"
       \/ /\ ~cacheExists
          /\ pre_pc' = "raised"
          /\ UNCHANGED cacheExists
    /\ UNCHANGED <<patch_size, tasks, results, progress, listCalls>>
    /\ UNCHANGED <<container, cache, localCkpt, remote, exportFile, runs>>
    /\ UNCHANGED <<histvars, mainvars>>

\* the image_blobs of line 81
ImageBlobs == {b \in container : IsImageBlob(b)}

\* lines 79-85: list the container; an error is printed and raised again
\* (lines 90-92); no image: warn and return
PreList ==
    /\ pre_pc = "list"
    /\ listCalls' = listCalls + 1
    /\ \/ /\ printed' = printed \cup {<<"FATAL: An error occurred during preprocessing orchestration", <<>>>>}
          /\ pre_pc' = "raised"
          /\ UNCHANGED tasks
       \/ /\ ImageBlobs = {}
          /\ printed' = printed \cup {<<"Warning: No images found", <<>>>>}
          /\ pre_pc' = "returned"
          /\ UNCHANGED tasks
       \/ /\ ImageBlobs # {}
          /\ tasks' = [b \in ImageBlobs |-> QueuedTask]
          /\ pre_pc' = "pool"
          /\ UNCHANGED printed
    /\ UNCHANGED <<patch_size, results, progress>>
    /\ UNCHANGED <<worldvars, writes, at_start, steps, mainvars>>

\* line 87: the for loop takes one result as it completes, and drops it
ConsumeResult ==
    /\ pre_pc = "pool"
    /\ \E r \in results : results' = results \ {r}
    /\ progress' = progress + 1
    /\ UNCHANGED <<pre_pc, patch_size, tasks, listCalls>>
    /\ UNCHANGED <<worldvars, histvars, mainvars>>

\* a variant of PoolDone: the orchestrator returns without waiting for the
\* results still to come
PoolDoneNoWait ==
    /\ pre_pc = "pool"
    /\ progress >= 0
    /\ printed' = printed \cup {<<"Parallel preprocessing complete. All patches saved", <<>>>>}
    /\ pre_pc' = "returned"
    /\ UNCHANGED <<patch_size, tasks, results, progress, listCalls>>
    /\ UNCHANGED <<worldvars, writes, at_start, steps, mainvars>>

\* lines 87-89: every task's result was taken: the pool is closed
PoolDone ==
    /\ pre_pc = "pool"
    /\ progress = Cardinality(DOMAIN tasks)
    /\ printed' = printed \cup {<<"Parallel preprocessing complete. All patches saved", <<>>>>}
    /\ pre_pc' = "returned"
    /\ UNCHANGED <<patch_size, tasks, results, progress, listCalls>>
    /\ UNCHANGED <<worldvars, writes, at_start, steps, mainvars>>

Worker ==
    \E b \in DOMAIN tasks :
        TaskFetch(b) \/ TaskPatch(b) \/ TaskPatchFail(b) \/ TaskReturn(b)

Preprocess ==
    PreCheckCache \/ PreMakedirs \/ PreList \/ Worker \/ ConsumeResult \/ PoolDone

-----------------------------------------------------------------------------
(* Files and checkpoints.                                                  *)

NoFile == [written |-> FALSE, weights |-> 0]
NoCkpt == [present |-> FALSE]
\* fwd, lossn, opt, ema: how many forward passes, loss computations,
\* optimizer steps and EMA updates; epochs: the epochs entered; saved,
\* uploaded: the names torch.save and upload_blob wrote; exported: the
\* backbone was written; restored: the parts of the checkpoint loaded
NoSteps ==
    [fwd |-> 0, lossn |-> 0, opt |-> 0, ema |-> 0, epochs |-> <<>>,
     saved |-> <<>>, uploaded |-> <<>>, exported |-> FALSE, restored |-> {}]

FilesNow == [cache |-> cache, localCkpt |-> localCkpt, remote |-> remote]

\* a variant of CheckpointName: one file name for every epoch
CheckpointNameLatest(e) == <<"checkpoint_epoch_", 0>>

\* f"checkpoint_epoch_{epoch+1}.pth", for the epoch of the loop variable
CheckpointName(e) == <<"checkpoint_epoch_", e + 1>>

\* the dict of lines 280-287
CheckpointDict(e, on, tg, pr, op, ls) ==
    [present |-> TRUE, epoch |-> e, online_network_state_dict |-> on,
     target_network_state_dict |-> tg, prediction_head_state_dict |-> pr,
     optimizer_state_dict |-> op, loss |-> ls]

-----------------------------------------------------------------------------
(* preprocess_and_save_locally on its own, for any patch size.             *)

WorldInit(containers, sizes) ==
    /\ container \in containers
    /\ \E k \in sizes :
          /\ cache = OldCache(k)
          /\ cacheExists \in (IF k = 0 THEN BOOLEAN ELSE {TRUE})
    /\ exportFile = NoFile
    /\ localCkpt = EmptyFn
    /\ runs = 1

RunLocalsInit ==
    /\ tasks = EmptyFn
    /\ results = {}
    /\ progress = 0
    /\ listCalls = 0
    /\ printed = {}
    /\ writes = {}
    /\ at_start = FilesNow
    /\ steps = NoSteps
    /\ dataset_len = 0
    /\ online = 0 /\ target = 0 /\ pred = 0 /\ opt = 0
    /\ checkpoint = NoCkpt
    /\ start_epoch = 0
    /\ epoch = 0
    /\ batch = 0
    /\ total_loss = 0
    /\ avg_loss = 0
    /\ z_target = 0
    /\ loss = 0

InitPre ==
    /\ WorldInit(Containers, OldCacheSizes)
    /\ remote = EmptyFn
    /\ RunLocalsInit
    /\ patch_size \in PatchSizes
    /\ pre_pc = "entry"
    /\ pc = "none"

SpecPre == InitPre /\ [][Preprocess]_vars

-----------------------------------------------------------------------------
(* main.                                                                   *)

\* CHECKPOINT_BLOB_NAME of line 206 ("checkpoint_epoch_29.pth" there), scaled
\* down with NUM_EPOCHS
CHECKPOINT_BLOB_NAME == <<"checkpoint_epoch_", 1>>

\* EMA_DECAY of line 133 (0.999 there), as a fraction
EMA_DECAY == [num |-> 1, den |-> 2]

\* the epoch fields the checkpoint found in remote storage may hold
StoredEpochs == 0..(NUM_EPOCHS - 1)

\* the source containers and the caches main is tried with
MainContainers == { {}, {Blob_a_jpg, Blob_b_txt} }
MainOldCacheSizes == {0, 1}

\* a checkpoint an earlier training left in remote storage
StoredCkpt(e) == CheckpointDict(e, 8, 4, 6, 2, 1)

\* the loss values a step may compute
LossValues == {1, 2}

\* len(dataloader), with drop_last=True
LenDataloader == dataset_len \div BATCH_SIZE

Terminal == {"finished", "aborted_empty", "aborted_resume", "raised", "killed"}

\* line 140: main calls the orchestrator with PATCH_SIZE
MainCallPreprocess ==
    /\ pc = "start"
    /\ pc' = "preprocess"
    /\ pre_pc' = "entry"
    /\ patch_size' = PATCH_SIZE
    /\ UNCHANGED <<tasks, results, progress, listCalls>>
    /\ UNCHANGED <<worldvars, histvars, dataset_len, netvars, loopvars>>

\* a variant of MainAfterPreprocess: main goes on after an exception of the call
MainAfterPreprocessGoesOn ==
    /\ pc = "preprocess"
    /\ pre_pc \in {"returned", "raised"}
    /\ pc' = "dataset"
    /\ pre_pc' = "idle"
    /\ tasks' = EmptyFn
    /\ results' = {}
    /\ progress' = 0
    /\ UNCHANGED <<patch_size, listCalls>>
    /\ UNCHANGED <<worldvars, histvars, dataset_len, netvars, loopvars>>

\* the call of line 140 is over: it returned, or its exception ends main
MainAfterPreprocess ==
    /\ pc = "preprocess"
    /\ pre_pc \in {"returned", "raised"}
    /\ pc' = IF pre_pc = "returned" THEN "dataset" ELSE "raised"
    /\ pre_pc' = "idle"
    /\ tasks' = EmptyFn
    /\ results' = {}
    /\ progress' = 0
    /\ UNCHANGED <<patch_size, listCalls>>
    /\ UNCHANGED <<worldvars, histvars, dataset_len, netvars, loopvars>>

\* a variant of MainDataset: lines 169-171 left out
MainDatasetNoAbort ==
    /\ pc = "dataset"
    /\ dataset_len' = Cardinality(DOMAIN cache)
    /\ pc' = "init_model"
    /\ UNCHANGED printed
    /\ UNCHANGED <<worldvars, prevars, writes, at_start, steps, netvars, loopvars>>

\* lines 168-176: the dataset lists the cache directory
MainDataset ==
    /\ pc = "dataset"
    /\ dataset_len' = Cardinality(DOMAIN cache)
    /\ IF dataset_len' = 0
       THEN /\ printed' = printed \cup {<<"Error: No patches found in local cache", <<>>>>}
            /\ pc' = "aborted_empty"
       ELSE /\ pc' = "init_model"
            /\ UNCHANGED printed
    /\ UNCHANGED <<worldvars, prevars, writes, at_start, steps, netvars, loopvars>>

\* lines 180-202: fresh networks, the target a deep copy of the online one
MainInitModel ==
    /\ pc = "init_model"
    /\ online' = 0
    /\ target' = online'
    /\ pred' = 0
    /\ opt' = 0
    /\ start_epoch' = 0
    /\ pc' = "resume_load"
    /\ UNCHANGED <<checkpoint, epoch, batch, total_loss, avg_loss, z_target, loss>>
    /\ UNCHANGED <<worldvars, prevars, histvars, dataset_len>>

\* a variant of ResumeFail: the except block without its return
ResumeFailNoReturn(stage) ==
    /\ printed' = printed \cup {<<"FATAL: Failed to load checkpoint from Azure", stage>>}
    /\ pc' = "epoch_head"

\* lines 234-238: any exception of the try block
ResumeFail(stage) ==
    /\ printed' = printed \cup {<<"FATAL: Failed to load checkpoint from Azure", stage>>}
    /\ pc' = "aborted_resume"

\* lines 212-223: download the named blob and torch.load it
ResumeLoad ==
    /\ pc = "resume_load"
    /\ \/ /\ \E stage \in {"download", "torch.load"} : ResumeFail(stage)
          /\ UNCHANGED checkpoint
       \/ /\ CHECKPOINT_BLOB_NAME \in DOMAIN remote
          /\ checkpoint' = remote[CHECKPOINT_BLOB_NAME]
          /\ pc' = "restore_online"
          /\ UNCHANGED printed
    /\ UNCHANGED <<start_epoch, epoch, batch, total_loss, avg_loss, z_target, loss>>
    /\ UNCHANGED <<worldvars, prevars, writes, at_start, steps, dataset_len, netvars>>

\* a variant of RestoreOnline: line 230 moved before the load_state_dict calls
RestoreOnlineEpochFirst ==
    /\ pc = "restore_online"
    /\ start_epoch' = checkpoint.epoch + 1
    /\ \/ /\ ResumeFail("online_network")
          /\ UNCHANGED <<online, steps>>
       \/ /\ online' = checkpoint.online_network_state_dict
          /\ pc' = "restore_target"
          /\ steps' = [steps EXCEPT !.restored = @ \cup {"online_network"}]
          /\ UNCHANGED printed
    /\ UNCHANGED <<target, pred, opt>>
    /\ UNCHANGED <<checkpoint, epoch, batch, total_loss, avg_loss, z_target, loss>>
    /\ UNCHANGED <<worldvars, prevars, writes, at_start, dataset_len>>

\* line 226
RestoreOnline ==
    /\ pc = "restore_online"
    /\ \/ /\ ResumeFail("online_network")
          /\ UNCHANGED <<online, steps>>
       \/ /\ online' = checkpoint.online_network_state_dict
          /\ pc' = "restore_target"
          /\ steps' = [steps EXCEPT !.restored = @ \cup {"online_network"}]
          /\ UNCHANGED printed
    /\ UNCHANGED <<target, pred, opt, loopvars>>
    /\ UNCHANGED <<worldvars, prevars, writes, at_start, dataset_len>>

\* a variant of RestoreTarget: the target loaded from the online network's entry
RestoreTargetFromOnline ==
    /\ pc = "restore_target"
    /\ \/ /\ ResumeFail("target_network")
          /\ UNCHANGED <<target, steps>>
       \/ /\ target' = checkpoint.online_network_state_dict
          /\ pc' = "restore_pred"
          /\ steps' = [steps EXCEPT !.restored = @ \cup {"target_network"}]
          /\ UNCHANGED printed
    /\ UNCHANGED <<online, pred, opt, loopvars>>
    /\ UNCHANGED <<worldvars, prevars, writes, at_start, dataset_len>>

\* line 227
RestoreTarget ==
    /\ pc = "restore_target"
    /\ \/ /\ ResumeFail("target_network")
          /\ UNCHANGED <<target, steps>>
       \/ /\ target' = checkpoint.target_network_state_dict
          /\ pc' = "restore_pred"
          /\ steps' = [steps EXCEPT !.restored = @ \cup {"target_network"}]
          /\ UNCHANGED printed
    /\ UNCHANGED <<online, pred, opt, loopvars>>
    /\ UNCHANGED <<worldvars, prevars, writes, at_start, dataset_len>>

\* line 228
RestorePred ==
    /\ pc = "restore_pred"
    /\ \/ /\ ResumeFail("prediction_head")
          /\ UNCHANGED <<pred, steps>>
       \/ /\ pred' = checkpoint.prediction_head_state_dict
          /\ pc' = "restore_opt"
          /\ steps' = [steps EXCEPT !.restored = @ \cup {"prediction_head"}]
          /\ UNCHANGED printed
    /\ UNCHANGED <<online, target, opt, loopvars>>
    /\ UNCHANGED <<worldvars, prevars, writes, at_start, dataset_len>>

\* line 229
RestoreOpt ==
    /\ pc = "restore_opt"
    /\ \/ /\ ResumeFail("optimizer")
          /\ UNCHANGED <<opt, steps>>
       \/ /\ opt' = checkpoint.optimizer_state_dict
          /\ pc' = "restore_epoch"
          /\ steps' = [steps EXCEPT !.restored = @ \cup {"optimizer"}]
          /\ UNCHANGED printed
    /\ UNCHANGED <<online, target, pred, loopvars>>
    /\ UNCHANGED <<worldvars, prevars, writes, at_start, dataset_len>>

\* a variant of RestoreEpoch: start_epoch = checkpoint['epoch']
RestoreEpochSame ==
    /\ pc = "restore_epoch"
    /\ \/ /\ ResumeFail("epoch")
          /\ UNCHANGED <<start_epoch, epoch, steps>>
       \/ /\ start_epoch' = checkpoint.epoch
          /\ epoch' = start_epoch'
          /\ pc' = "epoch_head"
          /\ steps' = [steps EXCEPT !.restored = @ \cup {"epoch"}]
          /\ UNCHANGED printed
    /\ UNCHANGED <<checkpoint, batch, total_loss, avg_loss, z_target, loss>>
    /\ UNCHANGED <<worldvars, prevars, writes, at_start, dataset_len, netvars>>

\* lines 230-232, and the loop variable of line 244 takes its first value
RestoreEpoch ==
    /\ pc = "restore_epoch"
    /\ \/ /\ ResumeFail("epoch")
          /\ UNCHANGED <<start_epoch, epoch, steps>>
       \/ /\ start_epoch' = checkpoint.epoch + 1
          /\ epoch' = start_epoch'
          /\ pc' = "epoch_head"
          /\ steps' = [steps EXCEPT !.restored = @ \cup {"epoch"}]
          /\ UNCHANGED printed
    /\ UNCHANGED <<checkpoint, batch, total_loss, avg_loss, z_target, loss>>
    /\ UNCHANGED <<worldvars, prevars, writes, at_start, dataset_len, netvars>>

Resume ==
    ResumeLoad \/ RestoreOnline \/ RestoreTarget \/ RestorePred \/ RestoreOpt \/ RestoreEpoch

\* a variant of EpochHead: range(start_epoch, NUM_EPOCHS - 1)
EpochHeadStopsEarly ==
    /\ pc = "epoch_head"
    /\ IF epoch < NUM_EPOCHS - 1
       THEN /\ total_loss' = 0
            /\ batch' = 0
            /\ steps' = [steps EXCEPT !.epochs = Append(@, epoch)]
            /\ pc' = "batch_head"
       ELSE /\ pc' = "export"
            /\ UNCHANGED <<total_loss, batch, steps>>
    /\ UNCHANGED <<checkpoint, start_epoch, epoch, avg_loss, z_target, loss>>
    /\ UNCHANGED <<worldvars, prevars, printed, writes, at_start, dataset_len, netvars>>

\* lines 244-247: for epoch in range(start_epoch, NUM_EPOCHS)
EpochHead ==
    /\ pc = "epoch_head"
    /\ IF epoch < NUM_EPOCHS
       THEN /\ total_loss' = 0
            /\ batch' = 0
            /\ steps' = [steps EXCEPT !.epochs = Append(@, epoch)]
            /\ pc' = "batch_head"
       ELSE /\ pc' = "export"
            /\ UNCHANGED <<total_loss, batch, steps>>
    /\ UNCHANGED <<checkpoint, start_epoch, epoch, avg_loss, z_target, loss>>
    /\ UNCHANGED <<worldvars, prevars, printed, writes, at_start, dataset_len, netvars>>

\* lines 249-259: the next batch; the forward passes of both networks
Forward ==
    /\ pc = "batch_head"
    /\ batch < LenDataloader
    /\ z_target' = target
    /\ steps' = [steps EXCEPT !.fwd = @ + 1]
    /\ pc' = "loss"
    /\ UNCHANGED <<checkpoint, start_epoch, epoch, batch, total_loss, avg_loss, loss>>
    /\ UNCHANGED <<worldvars, prevars, printed, writes, at_start, dataset_len, netvars>>

\* a variant of Loss: the EMA update of line 271 placed before line 266
LossThenEma ==
    /\ pc = "loss"
    /\ \E l \in LossValues : loss' = l
    /\ total_loss' = total_loss + loss'
    /\ steps' = [steps EXCEPT !.lossn = @ + 1]
    /\ pc' = "ema"
    /\ UNCHANGED <<checkpoint, start_epoch, epoch, batch, avg_loss, z_target>>
    /\ UNCHANGED <<worldvars, prevars, printed, writes, at_start, dataset_len, netvars>>

\* lines 262-263
Loss ==
    /\ pc = "loss"
    /\ \E l \in LossValues : loss' = l
    /\ total_loss' = total_loss + loss'
    /\ steps' = [steps EXCEPT !.lossn = @ + 1]
    /\ pc' = "optstep"
    /\ UNCHANGED <<checkpoint, start_epoch, epoch, batch, avg_loss, z_target>>
    /\ UNCHANGED <<worldvars, prevars, printed, writes, at_start, dataset_len, netvars>>

\* a variant of OptimizerStep: the target shares the online network's storage
OptimizerStepShared ==
    /\ pc = "optstep"
    /\ online' = online + 2 * loss
    /\ target' = online'
    /\ pred' = pred + 2 * loss
    /\ opt' = opt + 1
    /\ steps' = [steps EXCEPT !.opt = @ + 1]
    /\ pc' = "ema"
    /\ UNCHANGED loopvars
    /\ UNCHANGED <<worldvars, prevars, printed, writes, at_start, dataset_len>>

\* lines 266-268: the optimizer owns the online network and the prediction
\* head (lines 192-195); the step it takes follows the loss
OptimizerStep ==
    /\ pc = "optstep"
    /\ online' = online + 2 * loss
    /\ pred' = pred + 2 * loss
    /\ opt' = opt + 1
    /\ steps' = [steps EXCEPT !.opt = @ + 1]
    /\ pc' = "ema"
    /\ UNCHANGED <<target, loopvars>>
    /\ UNCHANGED <<worldvars, prevars, printed, writes, at_start, dataset_len>>

\* lines 113-120: decay * target + (1 - decay) * online
update_moving_average(ema_model, model, decay) ==
    (decay.num * ema_model + (decay.den - decay.num) * model) \div decay.den

\* line 271, and the for loop of line 249 goes on
EmaUpdate ==
    /\ pc = "ema"
    /\ target' = update_moving_average(target, online, EMA_DECAY)
    /\ batch' = batch + 1
    /\ steps' = [steps EXCEPT !.ema = @ + 1]
    /\ pc' = "batch_head"
    /\ UNCHANGED <<online, pred, opt>>
    /\ UNCHANGED <<checkpoint, start_epoch, epoch, total_loss, avg_loss, z_target, loss>>
    /\ UNCHANGED <<worldvars, prevars, printed, writes, at_start, dataset_len>>

\* lines 273-274: the batches are over; ZeroDivisionError when there was none
EpochEnd ==
    /\ pc = "batch_head"
    /\ batch >= LenDataloader
    /\ IF LenDataloader = 0
       THEN /\ pc' = "raised"
            /\ UNCHANGED avg_loss
       ELSE /\ avg_loss' = total_loss \div LenDataloader
            /\ pc' = "save"
    /\ UNCHANGED <<checkpoint, start_epoch, epoch, batch, total_loss, z_target, loss>>
    /\ UNCHANGED <<worldvars, prevars, histvars, dataset_len, netvars>>

\* a variant of SaveCheckpoint: 'epoch': epoch + 1
SaveCheckpointEpochOfName ==
    /\ pc = "save"
    /\ localCkpt' = (CheckpointName(epoch) :>
                        CheckpointDict(epoch + 1, online, target, pred, opt, avg_loss))
                    @@ localCkpt
    /\ steps' = [steps EXCEPT !.saved = Append(@, CheckpointName(epoch))]
    /\ pc' = "upload"
    /\ UNCHANGED <<container, cacheExists, cache, remote, exportFile, runs>>
    /\ UNCHANGED <<prevars, printed, writes, at_start, dataset_len, netvars, loopvars>>

\* lines 277-288: torch.save to checkpoint_epoch_{epoch+1}.pth
SaveCheckpoint ==
    /\ pc = "save"
    /\ localCkpt' = (CheckpointName(epoch) :>
                        CheckpointDict(epoch, online, target, pred, opt, avg_loss))
                    @@ localCkpt
    /\ steps' = [steps EXCEPT !.saved = Append(@, CheckpointName(epoch))]
    /\ pc' = "upload"
    /\ UNCHANGED <<container, cacheExists, cache, remote, exportFile, runs>>
    /\ UNCHANGED <<prevars, printed, writes, at_start, dataset_len, netvars, loopvars>>

\* lines 48-69: upload_blob(data, overwrite=True); any exception is a warning
upload_checkpoint_to_azure(local_file_path, blob_name) ==
    \/ /\ remote' = (blob_name :> localCkpt[local_file_path]) @@ remote
       /\ steps' = [steps EXCEPT !.uploaded = Append(@, blob_name)]
       /\ printed' = printed \cup {<<"Checkpoint successfully uploaded to Azure", blob_name>>}
    \/ /\ printed' = printed \cup {<<"WARNING: Failed to upload checkpoint to Azure", blob_name>>}
       /\ UNCHANGED <<remote, steps>>

\* a variant of UploadCheckpoint: a failed upload ends the run
UploadCheckpointFatal ==
    /\ pc = "upload"
    /\ \/ /\ remote' = (CheckpointName(epoch) :> localCkpt[CheckpointName(epoch)]) @@ remote
          /\ steps' = [steps EXCEPT !.uploaded = Append(@, CheckpointName(epoch))]
          /\ printed' = printed \cup {<<"Checkpoint successfully uploaded to Azure", CheckpointName(epoch)>>}
          /\ epoch' = epoch + 1
          /\ pc' = "epoch_head"
       \/ /\ printed' = printed \cup {<<"WARNING: Failed to upload checkpoint to Azure", CheckpointName(epoch)>>}
          /\ pc' = "raised"
          /\ UNCHANGED <<remote, steps, epoch>>
    /\ UNCHANGED <<container, cacheExists, cache, localCkpt, exportFile, runs>>
    /\ UNCHANGED <<checkpoint, start_epoch, batch, total_loss, avg_loss, z_target, loss>>
    /\ UNCHANGED <<prevars, writes, at_start, dataset_len, netvars>>

\* lines 290-295, and the for loop of line 244 goes on
UploadCheckpoint ==
    /\ pc = "upload"
    /\ upload_checkpoint_to_azure(CheckpointName(epoch), CheckpointName(epoch))
    /\ epoch' = epoch + 1
    /\ pc' = "epoch_head"
    /\ UNCHANGED <<container, cacheExists, cache, localCkpt, exportFile, runs>>
    /\ UNCHANGED <<checkpoint, start_epoch, batch, total_loss, avg_loss, z_target, loss>>
    /\ UNCHANGED <<prevars, writes, at_start, dataset_len, netvars>>

\* lines 298-301: the backbone of the online network
ExportBackbone ==
    /\ pc = "export"
    /\ exportFile' = [written |-> TRUE, weights |-> online]
    /\ steps' = [steps EXCEPT !.exported = TRUE]
    /\ pc' = "finished"
    /\ UNCHANGED <<container, cacheExists, cache, localCkpt, remote, runs>>
    /\ UNCHANGED <<prevars, printed, writes, at_start, dataset_len, netvars, loopvars>>

Train ==
    \/ EpochHead \/ Forward \/ Loss \/ OptimizerStep \/ EmaUpdate \/ EpochEnd
    \/ SaveCheckpoint \/ UploadCheckpoint \/ ExportBackbone

\* the memory of a process that is gone, and the histories of its run
RunLocalsReset ==
    /\ tasks' = EmptyFn
    /\ results' = {}
    /\ progress' = 0
    /\ listCalls' = 0
    /\ printed' = {}
    /\ writes' = {}
    /\ at_start' = FilesNow
    /\ steps' = NoSteps
    /\ dataset_len' = 0
    /\ online' = 0 /\ target' = 0 /\ pred' = 0 /\ opt' = 0
    /\ checkpoint' = NoCkpt
    /\ start_epoch' = 0
    /\ epoch' = 0
    /\ batch' = 0
    /\ total_loss' = 0
    /\ avg_loss' = 0
    /\ z_target' = 0
    /\ loss' = 0

\* the process is killed (the training is long-lived and interruptible);
\* the pool's workers go with it
Interrupt ==
    /\ pc \notin Terminal
    /\ pc' = "killed"
    /\ pre_pc' = "idle"
    /\ RunLocalsReset
    /\ UNCHANGED <<patch_size, worldvars>>

\* lines 303-306: the program is started again; the files stay.  One start
\* after the first run is followed.
Restart ==
    /\ pc \in Terminal
    /\ runs = 1
    /\ runs' = runs + 1
    /\ pc' = "start"
    /\ pre_pc' = "idle"
    /\ patch_size' = PATCH_SIZE
    /\ RunLocalsReset
    /\ UNCHANGED <<container, cacheExists, cache, localCkpt, remote, exportFile>>

Init ==
    /\ WorldInit(MainContainers, MainOldCacheSizes)
    /\ \/ remote = EmptyFn
       \/ \E e \in StoredEpochs : remote = (CHECKPOINT_BLOB_NAME :> StoredCkpt(e))
    /\ RunLocalsInit
    /\ patch_size = PATCH_SIZE
    /\ pre_pc = "idle"
    /\ pc = "start"

Main ==
    \/ MainCallPreprocess \/ MainAfterPreprocess \/ MainDataset \/ MainInitModel
    \/ Resume \/ Train

Next ==
    \/ (pc = "preprocess" /\ Preprocess)
    \/ Main
    \/ Interrupt
    \/ Restart

Spec == Init /\ [][Next]_vars

-----------------------------------------------------------------------------
(* Properties of the resume and of the checkpoints.                        *)

Range(seq) == {seq[i] : i \in 1..Len(seq)}

AllRestored ==
    {"online_network", "target_network", "prediction_head", "optimizer", "epoch"}

\* this run has entered an epoch, stepped, saved, uploaded or exported
TrainingActed ==
    \/ steps.epochs # <<>>
    \/ steps.fwd > 0 \/ steps.lossn > 0 \/ steps.opt > 0 \/ steps.ema > 0
    \/ steps.saved # <<>> \/ steps.uploaded # <<>> \/ steps.exported
    \/ localCkpt # at_start.localCkpt
    \/ remote # at_start.remote

LoopPcs ==
    {"epoch_head", "batch_head", "loss", "optstep", "ema", "save", "upload",
     "export", "finished"}

\* C1: no epoch, training step, checkpoint save or upload, or export
\* happens in a run unless the resume restored every part of the named
\* checkpoint before; a run whose resume failed ends having done none of
\* them, so no run trains from the fresh start_epoch = 0 state.
C1_ResumeBeforeTraining ==
    /\ (TrainingActed \/ pc \in LoopPcs) =>
          /\ steps.restored = AllRestored
          /\ checkpoint.present
          /\ start_epoch = checkpoint.epoch + 1
    /\ pc = "aborted_resume" => ~TrainingActed

C1_Witness ==
    /\ pc = "finished"
    /\ steps.exported
    /\ steps.ema >= 2
    /\ steps.saved # <<>>

\* the parameter containers by the names of the checkpoint's parts
Net ==
    [online_network |-> online, target_network |-> target,
     prediction_head |-> pred, optimizer |-> opt]

CkptNet ==
    [online_network |-> checkpoint.online_network_state_dict,
     target_network |-> checkpoint.target_network_state_dict,
     prediction_head |-> checkpoint.prediction_head_state_dict,
     optimizer |-> checkpoint.optimizer_state_dict]

\* the order of lines 226-229
RestoreOrder == <<"online_network", "target_network", "prediction_head", "optimizer">>

\* the values MainInitModel gave
FreshNet ==
    /\ \A i \in 1..Len(RestoreOrder) : Net[RestoreOrder[i]] = 0
    /\ start_epoch = 0

FailedAt(stage) ==
    <<"FATAL: Failed to load checkpoint from Azure", stage>> \in printed

\* C2 as stated: whenever the resume fails, every part still holds the
\* value it had before the resume began.
C2_NoPartialMutation == pc = "aborted_resume" => FreshNet

\* C2, amended: a resume that fails at the download or at torch.load has
\* changed nothing; one that fails at restoring a part has already
\* restored the parts before it (they hold the checkpoint's values) and
\* has left the parts after it and start_epoch as they were; the run ends
\* without training.
C2_PartialRestoreThenAbort ==
    pc = "aborted_resume" =>
        /\ start_epoch = 0
        /\ ~TrainingActed
        /\ (FailedAt("download") \/ FailedAt("torch.load")) =>
              (FreshNet /\ steps.restored = {} /\ ~checkpoint.present)
        /\ \A i \in 1..Len(RestoreOrder) :
              LET part == RestoreOrder[i]
              IN  /\ part \in steps.restored =>
                        /\ Net[part] = CkptNet[part]
                        /\ \A j \in 1..i : RestoreOrder[j] \in steps.restored
                  /\ (part \notin steps.restored /\ ~FailedAt(part)) => Net[part] = 0

C2_Witness ==
    /\ pc = "aborted_resume"
    /\ FailedAt("prediction_head")
    /\ online = checkpoint.online_network_state_dict
    /\ target = checkpoint.target_network_state_dict
    /\ online # 0
    /\ pred = 0 /\ opt = 0

\* C3 as stated: a checkpoint object that exists, locally or in remote
\* storage, is never overwritten or changed.
C3_AppendOnly ==
    [][/\ \A n \in DOMAIN localCkpt :
            n \in DOMAIN localCkpt' /\ localCkpt'[n] = localCkpt[n]
       /\ \A n \in DOMAIN remote :
            n \in DOMAIN remote' /\ remote'[n] = remote[n]]_vars

\* C3, amended: within one run every checkpoint write goes to the name of
\* the epoch just completed, a name this run has not written before, and
\* leaves every other object as it is; an object an earlier run left under
\* that name is overwritten in place.
C3_OneWritePerNamePerRun ==
    [][LET n == CheckpointName(epoch)
       IN  /\ (localCkpt' # localCkpt \/ steps'.saved # steps.saved) =>
                 \/ steps'.saved = <<>>
                 \/ /\ n \notin Range(steps.saved)
                    /\ steps'.saved = Append(steps.saved, n)
                    /\ n \in DOMAIN localCkpt'
                    /\ localCkpt'[n].epoch = epoch
                    /\ \A m \in DOMAIN localCkpt :
                          m # n => (m \in DOMAIN localCkpt' /\ localCkpt'[m] = localCkpt[m])
           /\ (remote' # remote \/ steps'.uploaded # steps.uploaded) =>
                 \/ steps'.uploaded = <<>>
                 \/ /\ n \notin Range(steps.uploaded)
                    /\ steps'.uploaded = Append(steps.uploaded, n)
                    /\ n \in DOMAIN remote'
                    /\ remote'[n] = localCkpt[n]
                    /\ \A m \in DOMAIN remote :
                          m # n => (m \in DOMAIN remote' /\ remote'[m] = remote[m])]_vars

C3_Witness ==
    /\ runs = 2
    /\ \E n \in DOMAIN at_start.localCkpt :
          /\ n \in Range(steps.saved)
          /\ localCkpt[n] # at_start.localCkpt[n]
    /\ \E n \in DOMAIN at_start.remote :
          /\ n \in Range(steps.uploaded)
          /\ remote[n] # at_start.remote[n]

\* C4: after a resume from a checkpoint whose stored epoch is e, the
\* epochs the loop enters are e+1, e+2, ... in this order, each once; when
\* the loop is over they are exactly e+1 .. NUM_EPOCHS-1 (the last value of
\* the loop variable); epoch e is not among them.
C4_EpochsAfterResume ==
    /\ steps.epochs # <<>> => checkpoint.present
    /\ \A i \in 1..Len(steps.epochs) : steps.epochs[i] = checkpoint.epoch + i
    /\ pc \in {"export", "finished"} =>
          Range(steps.epochs) = (checkpoint.epoch + 1)..(NUM_EPOCHS - 1)

C4_Witness ==
    /\ pc = "finished"
    /\ checkpoint.epoch = 0
    /\ Len(steps.epochs) >= 2

-----------------------------------------------------------------------------
(* Properties of the preprocessing.                                        *)

WritesOf(b) == {w \in writes : w.blob = b}

\* the pool ran and preprocess_and_save_locally returned
PoolFinished == pre_pc = "returned" /\ DOMAIN tasks # {}

\* C5 as stated: no patch file is written by the tasks of two distinct
\* objects, and when the pool is done the cache holds every patch of every
\* successful object.
C5_NoWriteContention ==
    /\ \A w1 \in writes, w2 \in writes : w1.file = w2.file => w1.blob = w2.blob
    /\ PoolFinished =>
          \A b \in DOMAIN tasks :
              tasks[b].st = "ok" =>
                  \A w \in WritesOf(b) :
                      /\ w.file \in DOMAIN cache
                      /\ cache[w.file].blob = b
                      /\ cache[w.file].box = w.box

\* C6 as stated: with failed objects the run still returns, every object
\* is tried exactly once, and the cache holds patch files of the
\* successful objects only.
C6_OnlySuccessfulInCache ==
    /\ DOMAIN tasks # {} => pre_pc # "raised"
    /\ PoolFinished =>
          /\ \A b \in DOMAIN tasks :
                tasks[b].attempts = 1 /\ tasks[b].st \in {"ok", "failed"}
          /\ \A f \in DOMAIN cache : tasks[cache[f].blob].st = "ok"
          /\ \A b \in DOMAIN tasks : tasks[b].st = "failed" => WritesOf(b) = {}

\* C6, amended: with failed objects the run still returns and every object
\* is tried exactly once; an object that failed at the download or at
\* opening the image has written no patch file; an object that failed
\* inside the tiling loop has written the patches before the failing one,
\* and these files stay in the cache; every file of the cache was written
\* by the task whose patch it holds.
C6_FailedKeepsEarlierPatches ==
    /\ DOMAIN tasks # {} => pre_pc \in {"pool", "returned"}
    /\ \A b \in DOMAIN tasks : tasks[b].attempts <= 1
    /\ PoolFinished =>
          /\ \A b \in DOMAIN tasks :
                /\ tasks[b].attempts = 1
                /\ tasks[b].st \in {"ok", "failed"}
                /\ (tasks[b].st = "failed" /\ tasks[b].stage \in {"download", "open"}) =>
                      WritesOf(b) = {}
                /\ (tasks[b].st = "failed" /\ tasks[b].stage = "tile") =>
                      {w.idx : w \in WritesOf(b)} = 0..(tasks[b].patch_num - 1)
          /\ \A w \in writes : w.file \in DOMAIN cache
          /\ \A f \in DOMAIN cache :
                \E w \in writes :
                    w.file = f /\ w.blob = cache[f].blob /\ w.box = cache[f].box

C6_Witness ==
    /\ PoolFinished
    /\ \E b1 \in DOMAIN tasks, b2 \in DOMAIN tasks :
          /\ tasks[b1].st = "failed" /\ tasks[b1].stage = "tile"
          /\ tasks[b1].patch_num >= 1
          /\ tasks[b2].st = "ok" /\ tasks[b2].patch_num >= 1
          /\ \E f \in DOMAIN cache : cache[f].blob = b1
          /\ \E f \in DOMAIN cache : cache[f].blob = b2

\* C7 as stated: for every object whose task returned a failure the
\* orchestrator has printed a report that names the object.
C7_FailuresReported ==
    PoolFinished =>
        \A b \in DOMAIN tasks :
            tasks[b].st = "failed" => \E m \in printed : m[2] = b

\* C8: when the cache directory held an entry as the run began, the
\* orchestrator returns at once: it lists no remote container, dispatches
\* no task, writes no patch, and the cache is what it was.
C8_CacheHitDoesNothing ==
    DOMAIN at_start.cache # {} =>
        /\ pre_pc \in {"idle", "entry", "returned"}
        /\ listCalls = 0
        /\ tasks = EmptyFn
        /\ results = {}
        /\ writes = {}
        /\ cache = at_start.cache
        /\ cacheExists

C8_Witness ==
    /\ runs = 2
    /\ pc = "preprocess"
    /\ pre_pc = "returned"
    /\ <<"Patches already exist", <<>>>> \in printed
    /\ \E f \in DOMAIN cache : cache[f].blob = Blob_a_jpg

\* C9: an extraction that succeeds on a W x H image with patch size p has
\* written floor(W/p) * floor(H/p) patches, and every patch box written is
\* (x, y, x+p, y+p) with x and y multiples of p, x+p <= W and y+p <= H.
C9_PatchCountAndBounds ==
    /\ \A b \in DOMAIN tasks :
          tasks[b].st = "ok" =>
              /\ tasks[b].patch_num =
                    (tasks[b].width \div patch_size) * (tasks[b].height \div patch_size)
              /\ Cardinality(WritesOf(b)) = tasks[b].patch_num
              /\ Cardinality({w.box : w \in WritesOf(b)}) = tasks[b].patch_num
    /\ \A w \in writes :
          /\ w.box[3] = w.box[1] + patch_size
          /\ w.box[4] = w.box[2] + patch_size
          /\ w.box[1] >= 0 /\ w.box[1] % patch_size = 0
          /\ w.box[2] >= 0 /\ w.box[2] % patch_size = 0
          /\ w.box[3] <= w.width
          /\ w.box[4] <= w.height

C9_Witness ==
    \E b1 \in DOMAIN tasks, b2 \in DOMAIN tasks :
        /\ tasks[b1].st = "ok"
        /\ tasks[b1].patch_num = 2
        /\ tasks[b1].width % patch_size # 0
        /\ tasks[b2].st = "ok"
        /\ tasks[b2].width < patch_size
        /\ tasks[b2].patch_num = 0

-----------------------------------------------------------------------------
(* Properties of the training step.                                        *)

\* C10: in a training step the forward passes (the target with the
\* weights it has before this step's update) come first, then the loss,
\* then the optimizer step, then one EMA update of the target from the
\* weights the optimizer step left; a step begins only when the step
\* before it has done its EMA update.
C10_StepOrder ==
    [][/\ steps'.fwd > steps.fwd =>
             /\ steps'.fwd = steps.fwd + 1
             /\ steps.lossn = steps.fwd /\ steps.opt = steps.fwd /\ steps.ema = steps.fwd
             /\ z_target' = target
             /\ target' = target /\ online' = online
       /\ steps'.lossn > steps.lossn =>
             /\ steps'.lossn = steps.lossn + 1
             /\ steps.fwd = steps.lossn + 1 /\ steps.opt = steps.lossn
             /\ target' = target /\ online' = online
       /\ steps'.opt > steps.opt =>
             /\ steps'.opt = steps.opt + 1
             /\ steps.lossn = steps.opt + 1 /\ steps.ema = steps.opt
             /\ z_target = target
             /\ target' = target
       /\ steps'.ema > steps.ema =>
             /\ steps'.ema = steps.ema + 1
             /\ steps.opt = steps.ema + 1
             /\ z_target = target
             /\ online' = online
             /\ target' = update_moving_average(target, online, EMA_DECAY)
       /\ (pc \in LoopPcs /\ pc' \in LoopPcs /\ target' # target) =>
             steps'.ema = steps.ema + 1
       /\ (pc \in LoopPcs /\ pc' \in LoopPcs /\ online' # online) =>
             steps'.opt = steps.opt + 1]_vars

C10_Witness ==
    /\ pc = "ema"
    /\ steps.opt = 2
    /\ steps.ema = 1
    /\ z_target = target
    /\ target # 0
    /\ online # target

-----------------------------------------------------------------------------
(* Properties of the networks, the checkpoints and the run as a whole.     *)

\* the process of this run is gone or a new one begins: its memory is reset
RunEnds == pc' \in {"killed", "start"} /\ pc' # pc

\* C11: once the networks are built, the target's parameters change only
\* in the restore of the resume and in the EMA update; the optimizer step
\* changes the online network and the prediction head and leaves the
\* target as it was, so the two differ until the EMA update runs.
C11_TargetOnlyRestoreOrEma ==
    [][/\ (target' # target /\ ~RunEnds) =>
             \/ pc = "init_model"
             \/ pc = "restore_target" /\ target' = checkpoint.target_network_state_dict
             \/ pc = "ema" /\ target' = update_moving_average(target, online, EMA_DECAY)
       /\ (pc = "optstep" /\ ~RunEnds) =>
             /\ target' = target
             /\ online' = online + 2 * loss
             /\ online' # online
             /\ pred' # pred
       /\ (pc = "ema" /\ ~RunEnds) => online' = online /\ pred' = pred]_vars

C11_Witness ==
    /\ pc = "ema"
    /\ steps.opt = 1
    /\ steps.ema = 0
    /\ steps.restored = AllRestored
    /\ target = checkpoint.target_network_state_dict
    /\ online = checkpoint.online_network_state_dict + 2 * loss
    /\ online # target

\* the uploads of this run that failed
UploadWarnings ==
    {m \in printed : m[1] = "WARNING: Failed to upload checkpoint to Azure"}

C13_EmptyCacheAborts ==
    /\ (pc \notin {"start", "preprocess", "dataset", "killed", "raised"}
            /\ DOMAIN cache = {}) =>
          pc = "aborted_empty"
    /\ pc = "aborted_empty" =>
          /\ DOMAIN cache = {}
          /\ dataset_len = 0
          /\ <<"Error: No patches found in local cache", <<>>>> \in printed
          /\ checkpoint = NoCkpt
          /\ steps = NoSteps
          /\ localCkpt = at_start.localCkpt
          /\ remote = at_start.remote
          /\ online = 0 /\ target = 0 /\ pred = 0 /\ opt = 0

C13_Witness ==
    /\ pc = "aborted_empty"
    /\ listCalls = 1
    /\ ImageBlobs # {}
    /\ CHECKPOINT_BLOB_NAME \in DOMAIN remote
    /\ writes = {}

SetupFailed == pc = "raised" /\ dataset_len = 0

\* C15: when the cache directory cannot be made or the container cannot
\* be listed, the orchestrator raises with no task dispatched and no
\* patch written, and the exception ends main: no dataset, no resume, no
\* training, no checkpoint and no export.
C15_SetupFailureFatal ==
    /\ [](pre_pc = "raised" =>
             /\ pc = "preprocess"
             /\ tasks = EmptyFn
             /\ results = {}
             /\ writes = {}
             /\ cache = at_start.cache)
    /\ [](SetupFailed =>
             /\ writes = {}
             /\ cache = at_start.cache
             /\ checkpoint = NoCkpt
             /\ steps = NoSteps
             /\ localCkpt = at_start.localCkpt
             /\ remote = at_start.remote
             /\ online = 0 /\ target = 0 /\ pred = 0 /\ opt = 0
             /\ <<"Error: No patches found in local cache", <<>>>> \notin printed)
    /\ [][/\ (pre_pc = "mkdir" /\ pre_pc' # "list" /\ ~RunEnds) => pre_pc' = "raised"
          /\ (pre_pc = "list" /\ ~RunEnds) =>
                \/ pre_pc' = "raised" /\ tasks' = EmptyFn
                \/ pre_pc' = "returned" /\ tasks' = EmptyFn /\ ImageBlobs = {}
                \/ pre_pc' = "pool" /\ ImageBlobs # {}
          /\ (pre_pc = "raised" /\ ~RunEnds) => pc' = "raised" /\ dataset_len' = 0]_vars

C15_Witness ==
    /\ SetupFailed
    /\ listCalls = 1
    /\ <<"FATAL: An error occurred during preprocessing orchestration", <<>>>> \in printed
    /\ ImageBlobs # {}
    /\ CHECKPOINT_BLOB_NAME \in DOMAIN remote

\* C16: the orchestrator returns only when every dispatched task has
\* finished and its result was taken; the cache is written only while
\* the pool runs inside the orchestrator; from the listing of the cache
\* by the dataset to the end of the run the cache is what the dataset
\* saw.
C16_PhasesDoNotOverlap ==
    /\ [](pre_pc = "returned" =>
             /\ Running = {}
             /\ \A b \in DOMAIN tasks : tasks[b].st \in {"ok", "failed"}
             /\ results = {}
             /\ progress = Cardinality(DOMAIN tasks))
    /\ [](pc \notin {"start", "preprocess", "killed"} => tasks = EmptyFn)
    /\ [](pc \in {"init_model", "resume_load", "restore_online", "restore_target",
                  "restore_pred", "restore_opt", "restore_epoch", "aborted_resume",
                  "aborted_empty"} \cup LoopPcs =>
             dataset_len = Cardinality(DOMAIN cache))
    /\ [][/\ cache' # cache => pc = "preprocess" /\ pre_pc = "pool" /\ pc' = pc
          /\ (writes' # writes /\ ~RunEnds) => pc = "preprocess" /\ pre_pc = "pool"
          /\ (pc = "dataset" /\ ~RunEnds) =>
                dataset_len' = Cardinality(DOMAIN cache) /\ cache' = cache]_vars

C16_Witness ==
    /\ pc = "batch_head"
    /\ steps.ema >= 1
    /\ Cardinality(writes) >= 3
    /\ dataset_len = Cardinality(writes)
    /\ \A w \in writes : w.file \in DOMAIN cache

\* the epochs range(start_epoch, NUM_EPOCHS) visits, in order
EpochsToRun ==
    [i \in 1..(IF start_epoch < NUM_EPOCHS THEN NUM_EPOCHS - start_epoch ELSE 0)
        |-> start_epoch + i - 1]

\* C17: the backbone export is written once, by the last step of a run
\* that resumed and then completed and saved every epoch from the resume
\* epoch to the final one; a run that aborted has written none.
C17_ExportLastAndOnce ==
    /\ [](steps.exported =>
             /\ pc = "finished"
             /\ exportFile = [written |-> TRUE, weights |-> online]
             /\ steps.restored = AllRestored
             /\ steps.epochs = EpochsToRun
             /\ steps.saved = [i \in 1..Len(EpochsToRun) |-> CheckpointName(EpochsToRun[i])]
             /\ \A n \in Range(steps.saved) : n \in DOMAIN localCkpt)
    /\ [](pc \in {"aborted_empty", "aborted_resume", "raised"} => ~steps.exported)
    /\ [][/\ exportFile' # exportFile => pc = "export" /\ pc' = "finished"
          /\ (steps'.exported /\ ~steps.exported) => pc = "export" /\ pc' = "finished"
          /\ pc = "finished" => RunEnds]_vars

C17_Witness ==
    /\ pc = "finished"
    /\ steps.exported
    /\ start_epoch = 1
    /\ steps.epochs = <<1, 2>>
    /\ steps.saved = <<CheckpointName(1), CheckpointName(2)>>
    /\ steps.uploaded = steps.saved
    /\ exportFile.weights = online
    /\ online # 8

\* the number in a checkpoint's name
NameNumber(n) == n[2]

\* C18 as stated: the checkpoint named checkpoint_epoch_N, local or
\* uploaded, holds the stored epoch N, and a run resumed from the
\* checkpoint named N starts at epoch N + 1.
C18_NameIsStoredEpoch ==
    /\ \A n \in DOMAIN localCkpt : localCkpt[n].epoch = NameNumber(n)
    /\ \A n \in Range(steps.uploaded) : remote[n].epoch = NameNumber(n)
    /\ (steps.restored = AllRestored
            /\ checkpoint.epoch = NameNumber(CHECKPOINT_BLOB_NAME)) =>
          start_epoch = NameNumber(CHECKPOINT_BLOB_NAME) + 1

\* C18, amended: the checkpoint named checkpoint_epoch_N, local or
\* uploaded, is written when N epochs are complete and holds the stored
\* epoch N - 1, the 0-based index of the last of them; a run resumed from
\* a checkpoint with stored epoch N - 1 starts at the 0-based epoch N.
C18_NameIsStoredEpochPlusOne ==
    /\ \A n \in DOMAIN localCkpt : localCkpt[n].epoch = NameNumber(n) - 1
    /\ \A n \in Range(steps.uploaded) :
          /\ remote[n].epoch = NameNumber(n) - 1
          /\ remote[n] = localCkpt[n]
    /\ pc \in {"upload"} =>
          /\ NameNumber(CheckpointName(epoch)) = epoch + 1
          /\ localCkpt[CheckpointName(epoch)].epoch = epoch
    /\ (steps.restored = AllRestored
            /\ checkpoint.epoch = NameNumber(CHECKPOINT_BLOB_NAME) - 1) =>
          /\ start_epoch = NameNumber(CHECKPOINT_BLOB_NAME)
          /\ steps.epochs # <<>> => steps.epochs[1] = NameNumber(CHECKPOINT_BLOB_NAME)

C18_Witness ==
    /\ steps.restored = AllRestored
    /\ checkpoint.epoch = NameNumber(CHECKPOINT_BLOB_NAME) - 1
    /\ start_epoch = 1
    /\ pc = "epoch_head"
    /\ epoch = 2
    /\ steps.uploaded = <<CheckpointName(1)>>
    /\ remote[<<"checkpoint_epoch_", 2>>].epoch = 1
    /\ localCkpt[<<"checkpoint_epoch_", 2>>].epoch = 1

-----------------------------------------------------------------------------
(* Properties of the patch numbering.                                      *)

\* the source names with '/' replaced by '_' and the extension stripped
ExpectedStem(b) ==
    CASE b = Blob_a_jpg -> <<"a">>
      [] b = Blob_a_png -> <<"a">>
      [] b = Blob_d_a_PNG -> <<"d", "_", "a">>
      [] b = Blob_d_a_png -> <<"d", "_", "a">>

ExpectedDigits(k) ==
    CASE k = 0 -> <<"0">> [] k = 1 -> <<"1">> [] k = 2 -> <<"2">> [] k = 3 -> <<"3">>
      [] k = 4 -> <<"4">> [] k = 5 -> <<"5">> [] k = 6 -> <<"6">> [] k = 7 -> <<"7">>
      [] k = 8 -> <<"8">> [] k = 9 -> <<"9">>

\* C19: the patches of one image are numbered 0, 1, 2, ... without gaps in
\* row-major order: with cols = floor(W/p) the patch of index k is the
\* crop at x = (k mod cols) * p, y = (k div cols) * p, saved as
\* <stem>_patch_<k>.png; index, box and name are functions of the
\* name, W, H, p and k alone.
C19_RowMajorIndices ==
    /\ \A w \in writes :
          LET cols == w.width \div patch_size
          IN  /\ cols >= 1
              /\ w.box = <<(w.idx % cols) * patch_size,
                           (w.idx \div cols) * patch_size,
                           (w.idx % cols) * patch_size + patch_size,
                           (w.idx \div cols) * patch_size + patch_size>>
              /\ w.file = ExpectedStem(w.blob)
                              \o <<"_", "p", "a", "t", "c", "h", "_">>
                              \o ExpectedDigits(w.idx)
                              \o <<".", "p", "n", "g">>
    /\ \A b \in DOMAIN tasks :
          {w.idx : w \in WritesOf(b)} = 0..(tasks[b].patch_num - 1)
    /\ \A w1 \in writes, w2 \in writes :
          (w1.blob = w2.blob /\ w1.idx = w2.idx) => w1 = w2

C19_Witness ==
    \E w \in writes :
        /\ w.blob = Blob_d_a_PNG
        /\ w.width = 4 /\ w.height = 4
        /\ patch_size = 2
        /\ w.idx = 3
        /\ w.box = <<2, 2, 4, 4>>
        /\ w.file = <<"d", "_", "a", "_", "p", "a", "t", "c", "h", "_", "3", ".", "p", "n", "g">>
        /\ tasks[w.blob].st = "ok"

-----------------------------------------------------------------------------
(* Properties of the epoch.                                                *)

\* C20 as stated: a run that enters the training loop with at least one
\* patch takes at least one optimization step in every epoch, computes
\* the mean loss without an error and reaches the save of the epoch.
C20_EveryEpochSteps ==
    /\ (dataset_len >= 1 /\ steps.epochs # <<>>) => LenDataloader >= 1
    /\ pc = "raised" => steps.epochs = <<>>
    /\ (pc = "batch_head" /\ batch >= LenDataloader) => steps.opt >= Len(steps.epochs)

====
